---- MODULE Spec2Model ----
(***************************************************************************)
(* Weather-data-visualiser/main.py: a one-shot batch pipeline              *)
(*   load_data -> clean_data -> compute_statistics -> group_and_aggregate  *)
(*   -> create_visualizations -> export_results                            *)
(* driven by main().  The state is main's local variables, the CSV file at *)
(* DATA_FILE, and the files written so far.  Each stage is one action.     *)
(*                                                                         *)
(* Abstractions, stated once:                                              *)
(*  - a timestamp is a whole number of days since 1970-01-01 (the CSV      *)
(*    cells modelled are dates without a time of day);                     *)
(*  - a value cell is an integer; a float result is kept exact, as a       *)
(*    fraction num/den (mean) or as the square root of one (std);          *)
(*  - value cells are never empty; date cells may be empty;                *)
(*  - a CSV has at least one data row.                                     *)
(***************************************************************************)
EXTENDS Integers, Sequences, FiniteSets, TLC

\* Largest number of data rows of the CSV file.
MaxRows == 2

(***************************************************************************)
(* Module constants (main.py:8-11) and the names clean_data configures.    *)
(***************************************************************************)
CLEANED_DATA_FILE == "cleaned_weather_data.csv"
REPORT_FILE == "summary_report.md"
DATE_COLUMN == "DateColumnName"
RELEVANT_COLUMNS == <<"Temperature", "Rainfall", "Humidity">>

TEMPERATURE_PNG == "plots/temperature_line_chart.png"
RAINFALL_PNG == "plots/rainfall_bar_chart.png"
SCATTER_PNG == "plots/humidity_temp_scatter_plot.png"
COMBINED_PNG == "plots/combined_temp_humidity_subplots.png"

\* Python's None, and the pandas tables, as records told apart by .kind.
None == [kind |-> "None"]
IsNone(x) == x.kind = "None"

Range(s) == {s[i] : i \in 1..Len(s)}

RECURSIVE SumSeq(_)
SumSeq(s) == IF s = <<>> THEN 0 ELSE s[1] + SumSeq(Tail(s))

MinOf(S) == CHOOSE x \in S : \A y \in S : x <= y
MaxOf(S) == CHOOSE x \in S : \A y \in S : y <= x

(***************************************************************************)
(* Calendar arithmetic of the timestamps pd.to_datetime produces and       *)
(* resample('M') buckets (proleptic Gregorian, days since 1970-01-01).     *)
(***************************************************************************)
IsLeap(y) == (y % 4 = 0 /\ y % 100 # 0) \/ y % 400 = 0

DaysInMonth(y, m) ==
    IF m = 2 THEN (IF IsLeap(y) THEN 29 ELSE 28)
    ELSE IF m \in {4, 6, 9, 11} THEN 30 ELSE 31

DaysFromCivil(y, m, d) ==
    LET yy  == IF m <= 2 THEN y - 1 ELSE y
        era == yy \div 400
        yoe == yy - era * 400
        mp  == IF m > 2 THEN m - 3 ELSE m + 9
        doy == (153 * mp + 2) \div 5 + d - 1
        doe == yoe * 365 + yoe \div 4 - yoe \div 100 + doy
    IN  era * 146097 + doe - 719468

CivilFromDays(z0) ==
    LET z   == z0 + 719468
        era == z \div 146097
        doe == z - era * 146097
        yoe == (doe - doe \div 1460 + doe \div 36524 - doe \div 146096) \div 365
        doy == doe - (365 * yoe + yoe \div 4 - yoe \div 100)
        mp  == (5 * doy + 2) \div 153
        d   == doy - (153 * mp + 2) \div 5 + 1
        m   == IF mp < 10 THEN mp + 3 ELSE mp - 9
        y   == yoe + era * 400 + (IF m <= 2 THEN 1 ELSE 0)
    IN  [y |-> y, m |-> m, d |-> d]

\* pandas' NaT, the timestamp of an empty date cell.
NaT == -1

\* An empty CSV field (read_csv gives NaN for it).
MissingCell == <<>>

\* Whether pd.to_datetime can parse the cell <<y, m, d>> (a "y-m-d" text).
Parseable(cell) ==
    \/ cell = MissingCell
    \/ /\ Len(cell) = 3
       /\ cell[2] \in 1..12
       /\ cell[3] \in 1..DaysInMonth(cell[1], cell[2])

\* pd.to_datetime on one parseable cell.
ToDatetime(cell) ==
    IF cell = MissingCell THEN NaT ELSE DaysFromCivil(cell[1], cell[2], cell[3])

\* The month-end on or after timestamp t (MonthEnd roll-forward).
MonthEnd(t) ==
    LET c == CivilFromDays(t) IN DaysFromCivil(c.y, c.m, DaysInMonth(c.y, c.m))

(***************************************************************************)
(* Tables.  A DataFrame is its column names in order, its index and its    *)
(* rows (each a function from column name to cell).                        *)
(***************************************************************************)
DataFrame(columns, index, rows) ==
    [kind |-> "DataFrame", columns |-> columns, index |-> index, rows |-> rows]

HasColumn(df, c) == c \in Range(df.columns)

Column(df, c) == [i \in 1..Len(df.rows) |-> df.rows[i][c]]

\* df[cols]: the listed columns, in the listed order, every row kept.
Select(df, cols) ==
    DataFrame(cols, df.index,
              [i \in 1..Len(df.rows) |-> [c \in Range(cols) |-> df.rows[i][c]]])

\* [col for col in wanted if col in df.columns]
Existing(wanted, df) == SelectSeq(wanted, LAMBDA c : HasColumn(df, c))

\* Variant: the index is set and then sorted ascending (sort_index), rows
\* following their timestamps.
SetIndexSorted(df, col, parsed) ==
    LET rest == SelectSeq(df.columns, LAMBDA c : c # col)
        n    == Len(df.rows)
        perm == CHOOSE p \in [1..n -> 1..n] :
                    /\ \A i, j \in 1..n : i # j => p[i] # p[j]
                    /\ \A i, j \in 1..n : i < j =>
                          \/ parsed[p[i]] < parsed[p[j]]
                          \/ (parsed[p[i]] = parsed[p[j]] /\ p[i] < p[j])
    IN  DataFrame(rest, [i \in 1..n |-> parsed[perm[i]]],
                  [i \in 1..n |-> [c \in Range(rest) |-> df.rows[perm[i]][c]]])

\* df.set_index(col, inplace=True) after df[col] = parsed: the parsed values
\* become the index, row by row, and the column leaves the columns.
SetIndex(df, col, parsed) ==
    LET rest == SelectSeq(df.columns, LAMBDA c : c # col)
    IN  DataFrame(rest, parsed,
                  [i \in 1..Len(df.rows) |-> [c \in Range(rest) |-> df.rows[i][c]]])

(***************************************************************************)
(* Numbers as pandas reports them: NaN, or the exact value num/den.        *)
(***************************************************************************)
NaN == [nan |-> TRUE, num |-> 0, den |-> 1]
Num(n) == [nan |-> FALSE, num |-> n, den |-> 1]

Mean(xs) ==
    IF Len(xs) = 0 THEN NaN ELSE [nan |-> FALSE, num |-> SumSeq(xs), den |-> Len(xs)]

Min(xs) == IF Len(xs) = 0 THEN NaN ELSE Num(MinOf(Range(xs)))

Max(xs) == IF Len(xs) = 0 THEN NaN ELSE Num(MaxOf(Range(xs)))

\* Variant: sum() that reports NaN for an empty bucket (min_count = 1).
SumMinCount1(xs) == IF Len(xs) = 0 THEN NaN ELSE Num(SumSeq(xs))

\* sum() of a bucket or column: 0 when it is empty (min_count = 0).
Sum(xs) == Num(SumSeq(xs))

\* Standard deviation with `ddof` delta degrees of freedom.  The result is
\* sqrt(num/den), kept as that radicand; NaN when Len(xs) <= ddof.
StdDdof(xs, ddof) ==
    LET n  == Len(xs)
        s  == SumSeq(xs)
        sq == SumSeq([i \in 1..n |-> xs[i] * xs[i]])
    IN  IF n <= ddof THEN NaN
        ELSE [nan |-> FALSE, num |-> n * sq - s * s, den |-> n * (n - ddof)]

\* Variant: the population standard deviation (np.std's own default, ddof = 0).
StdPopulation(xs) == StdDdof(xs, 0)

\* np.std inside DataFrame.agg resolves to Series.std: the sample standard
\* deviation.
Std(xs) == StdDdof(xs, 1)

IsZero(x) == ~x.nan /\ x.num = 0
Equals(x, c) == ~x.nan /\ x.num = c * x.den

(***************************************************************************)
(* The stages.  Each returns [ret, exc]: the value returned and the        *)
(* exception that left the function uncaught ("none" when it returned).    *)
(***************************************************************************)
\* The file system before the run: no file at DATA_FILE.
NoFile == [kind |-> "NoFile"]

Returned(v) == [ret |-> v, exc |-> "none"]
Raised(e) == [ret |-> None, exc |-> e]

\* Variant: load_data without its except clause.
load_data_uncaught(f) ==
    IF f.kind = "NoFile" THEN Raised("FileNotFoundError") ELSE Returned(f)

\* load_data: pd.read_csv, with FileNotFoundError caught and None returned.
load_data(f) ==
    IF f.kind = "NoFile" THEN Returned(None) ELSE Returned(f)

\* The try body of clean_data: df[DATE_COLUMN] (KeyError when the column is
\* absent), pd.to_datetime (ValueError on a value it cannot parse) and
\* set_index in place.  df is changed only when all three succeed.
ConvertDate(df) ==
    IF ~HasColumn(df, DATE_COLUMN) THEN [exc |-> "KeyError", df |-> df]
    ELSE IF \E i \in 1..Len(df.rows) : ~Parseable(df.rows[i][DATE_COLUMN])
        THEN [exc |-> "ValueError", df |-> df]
    ELSE [exc |-> "none",
          df |-> SetIndex(df, DATE_COLUMN,
                     [i \in 1..Len(df.rows) |-> ToDatetime(df.rows[i][DATE_COLUMN])])]

\* Variant: clean_data without "except KeyError" and "except Exception".
clean_data_no_handlers(df) ==
    LET t == ConvertDate(df)
    IN  IF t.exc # "none" THEN [ret |-> None, exc |-> t.exc, df |-> t.df]
        ELSE [ret |-> Select(t.df, Existing(RELEVANT_COLUMNS, t.df)),
              exc |-> "none", df |-> t.df]

\* Variant: clean_data with "except KeyError" only, a parse failure uncaught.
clean_data_keyerror_only(df) ==
    LET t == ConvertDate(df)
    IN  IF t.exc = "KeyError" THEN [ret |-> None, exc |-> "none", df |-> t.df]
        ELSE IF t.exc # "none" THEN [ret |-> None, exc |-> t.exc, df |-> t.df]
        ELSE [ret |-> Select(t.df, Existing(RELEVANT_COLUMNS, t.df)),
              exc |-> "none", df |-> t.df]

\* clean_data: both handlers (except KeyError, except Exception) return None;
\* otherwise the present relevant columns are selected.  .df is the caller's
\* table after the in-place changes.
clean_data(df) ==
    LET t == ConvertDate(df)
    IN  IF t.exc = "KeyError" THEN [ret |-> None, exc |-> "none", df |-> t.df]
        ELSE IF t.exc # "none" THEN [ret |-> None, exc |-> "none", df |-> t.df]
        ELSE [ret |-> Select(t.df, Existing(RELEVANT_COLUMNS, t.df)),
              exc |-> "none", df |-> t.df]

\* Variant: statistics of whichever relevant columns the table holds.
compute_statistics_tolerant(df) ==
    Returned([kind |-> "Stats",
              table |-> [c \in Range(Existing(RELEVANT_COLUMNS, df)) |->
                            [mean |-> Mean(Column(df, c)),
                             min  |-> Min(Column(df, c)),
                             max  |-> Max(Column(df, c)),
                             std  |-> StdDdof(Column(df, c), 1)]]])

\* compute_statistics: df.agg with a dict naming all three columns raises
\* KeyError when one is absent; otherwise mean, min, max, std per column.
compute_statistics(df) ==
    IF \E c \in Range(RELEVANT_COLUMNS) : ~HasColumn(df, c) THEN Raised("KeyError")
    ELSE Returned([kind |-> "Stats",
                   table |-> [c \in Range(RELEVANT_COLUMNS) |->
                                 [mean |-> Mean(Column(df, c)),
                                  min  |-> Min(Column(df, c)),
                                  max  |-> Max(Column(df, c)),
                                  std  |-> Std(Column(df, c))]]])

\* The bin labels of resample('M'): every month-end from the one on or after
\* the earliest timestamp to the one on or after the latest.
RECURSIVE MonthEnds(_, _)
MonthEnds(from, to) ==
    IF from > to THEN <<>> ELSE <<from>> \o MonthEnds(MonthEnd(from + 1), to)

\* The rows of bin k (closed and labelled on the right): those whose
\* timestamp lies after the previous label and not after this one.  A NaT
\* timestamp lies in no bin.
BinRows(index, labels, k) ==
    SelectSeq([i \in 1..Len(index) |-> i],
              LAMBDA i : /\ index[i] # NaT
                         /\ index[i] <= labels[k]
                         /\ (k = 1 \/ labels[k - 1] < index[i]))

Take(xs, rows) == [j \in 1..Len(rows) |-> xs[rows[j]]]

\* group_and_aggregate: df.resample('M').agg(...).  KeyError when a named
\* column is absent; ValueError when no timestamp is valid (the bin range
\* has no ends); otherwise one row per bin label.
group_and_aggregate(df) ==
    IF \E c \in Range(RELEVANT_COLUMNS) : ~HasColumn(df, c) THEN Raised("KeyError")
    ELSE IF \A i \in 1..Len(df.index) : df.index[i] = NaT THEN Raised("ValueError")
    ELSE
      LET valid  == {df.index[i] : i \in 1..Len(df.index)} \ {NaT}
          labels == MonthEnds(MonthEnd(MinOf(valid)), MonthEnd(MaxOf(valid)))
          bucket(c, k) == Take(Column(df, c), BinRows(df.index, labels, k))
      IN  Returned([kind |-> "Monthly",
                    rows |-> [k \in 1..Len(labels) |->
                        [label |-> labels[k],
                         Temperature |-> [mean |-> Mean(bucket("Temperature", k)),
                                          min  |-> Min(bucket("Temperature", k)),
                                          max  |-> Max(bucket("Temperature", k))],
                         Rainfall |-> [sum |-> Sum(bucket("Rainfall", k))],
                         Humidity |-> [mean |-> Mean(bucket("Humidity", k))]]]])

\* Variant: the charts that need Humidity are skipped when it is absent.
create_visualizations_skipping(df, monthly) ==
    IF ~HasColumn(df, "Temperature") THEN [exc |-> "KeyError", written |-> <<>>]
    ELSE IF ~HasColumn(df, "Humidity")
        THEN [exc |-> "none", written |-> <<TEMPERATURE_PNG, RAINFALL_PNG>>]
    ELSE [exc |-> "none",
          written |-> <<TEMPERATURE_PNG, RAINFALL_PNG, SCATTER_PNG, COMBINED_PNG>>]

\* create_visualizations: four charts in order, each saved when its columns
\* were found; the first missing column raises KeyError and ends the call.
\* .written lists the files saved, in order.
create_visualizations(df, monthly) ==
    LET line     == <<TEMPERATURE_PNG>>
        bar      == line \o <<RAINFALL_PNG>>
        scatter  == bar \o <<SCATTER_PNG>>
        combined == scatter \o <<COMBINED_PNG>>
    IN  IF ~HasColumn(df, "Temperature") THEN [exc |-> "KeyError", written |-> <<>>]
        ELSE IF ~HasColumn(df, "Humidity") THEN [exc |-> "KeyError", written |-> bar]
        ELSE [exc |-> "none", written |-> combined]

\* Variant: the report written before the cleaned CSV.
export_results_report_first(df, stats, monthly) ==
    [exc |-> "none", written |-> <<REPORT_FILE, CLEANED_DATA_FILE>>]

\* export_results: the cleaned CSV, then the report.
export_results(df, stats, monthly) ==
    [exc |-> "none", written |-> <<CLEANED_DATA_FILE, REPORT_FILE>>]

(***************************************************************************)
(* The CSV files a run may find at DATA_FILE.                              *)
(***************************************************************************)
\* The header of a file holding every column, in the file's own order.
FullHeader == <<"Humidity", DATE_COLUMN, "Wind", "Rainfall", "Temperature">>

Headers == {SelectSeq(FullHeader, LAMBDA c : c \in S) : S \in SUBSET Range(FullHeader)}

\* 2023-12-31, 2024-01-01, 2024-02-29, the impossible 2024-02-30, and an
\* empty cell.
DateCells ==
    {<<2023, 12, 31>>, <<2024, 1, 1>>, <<2024, 2, 29>>, <<2024, 2, 30>>, MissingCell}

Readings ==
    {[Temperature |-> 10, Rainfall |-> 0, Humidity |-> 60, Wind |-> 1],
     [Temperature |-> 10, Rainfall |-> 5, Humidity |-> 60, Wind |-> 1],
     [Temperature |-> 20, Rainfall |-> 5, Humidity |-> 80, Wind |-> 1]}

FullRows ==
    {[c \in Range(FullHeader) |-> IF c = DATE_COLUMN THEN d ELSE r[c]] :
        d \in DateCells, r \in Readings}

FullTables == UNION {[1..n -> FullRows] : n \in 1..MaxRows}

\* read_csv's table: the header's columns, a RangeIndex, the rows in file order.
CsvFile(header, rows) ==
    DataFrame(header, [i \in 1..Len(rows) |-> i - 1],
              [i \in 1..Len(rows) |-> [c \in Range(header) |-> rows[i][c]]])

Files == {NoFile} \cup {CsvFile(h, t) : h \in Headers, t \in FullTables}

(***************************************************************************)
(* main()                                                                  *)
(***************************************************************************)
VARIABLES
    file,             \* what is at DATA_FILE
    pc,               \* the stage main runs next, or "done"
    outcome,          \* "running", "completed", "aborted_load",
                      \* "aborted_clean" (the two early returns), "crashed"
    error,            \* the uncaught exception of a crashed run
    df_raw, df_cleaned, overall_stats, monthly_summary,   \* main's locals
    written,          \* the files written so far, in order
    entered,          \* the stages entered so far, in order
    completed         \* the stages that returned their result

vars == <<file, pc, outcome, error, df_raw, df_cleaned, overall_stats,
          monthly_summary, written, entered, completed>>

Stages == <<"load_data", "clean_data", "compute_statistics", "group_and_aggregate",
            "create_visualizations", "export_results">>

Artifacts == <<TEMPERATURE_PNG, RAINFALL_PNG, SCATTER_PNG, COMBINED_PNG,
               CLEANED_DATA_FILE, REPORT_FILE>>

Init ==
    /\ file \in Files
    /\ pc = "load_data"
    /\ outcome = "running"
    /\ error = "none"
    /\ df_raw = None
    /\ df_cleaned = None
    /\ overall_stats = None
    /\ monthly_summary = None
    /\ written = <<>>
    /\ entered = <<>>
    /\ completed = <<>>

\* An uncaught exception ends the process.
Crash(stage, e) ==
    /\ pc' = "done"
    /\ outcome' = "crashed"
    /\ error' = e
    /\ entered' = Append(entered, stage)
    /\ completed' = completed

\* main.py:216-219
Load ==
    /\ pc = "load_data"
    /\ LET r == load_data(file)
       IN  /\ df_raw' = r.ret
           /\ IF r.exc # "none" THEN Crash("load_data", r.exc)
              ELSE /\ entered' = Append(entered, "load_data")
                   /\ error' = error
                   /\ IF IsNone(r.ret)
                      THEN /\ pc' = "done"
                           /\ outcome' = "aborted_load"
                           /\ completed' = completed
                      ELSE /\ pc' = "clean_data"
                           /\ outcome' = outcome
                           /\ completed' = Append(completed, "load_data")
    /\ UNCHANGED <<file, df_cleaned, overall_stats, monthly_summary, written>>

\* main.py:221-224
Clean ==
    /\ pc = "clean_data"
    /\ LET r == clean_data(df_raw)
       IN  /\ df_raw' = r.df
           /\ df_cleaned' = r.ret
           /\ IF r.exc # "none" THEN Crash("clean_data", r.exc)
              ELSE /\ entered' = Append(entered, "clean_data")
                   /\ error' = error
                   /\ IF IsNone(r.ret)
                      THEN /\ pc' = "done"
                           /\ outcome' = "aborted_clean"
                           /\ completed' = completed
                      ELSE /\ pc' = "compute_statistics"
                           /\ outcome' = outcome
                           /\ completed' = Append(completed, "clean_data")
    /\ UNCHANGED <<file, overall_stats, monthly_summary, written>>

\* main.py:227
Stats ==
    /\ pc = "compute_statistics"
    /\ LET r == compute_statistics(df_cleaned)
       IN  /\ overall_stats' = r.ret
           /\ IF r.exc # "none" THEN Crash("compute_statistics", r.exc)
              ELSE /\ pc' = "group_and_aggregate"
                   /\ entered' = Append(entered, "compute_statistics")
                   /\ completed' = Append(completed, "compute_statistics")
                   /\ UNCHANGED <<outcome, error>>
    /\ UNCHANGED <<file, df_raw, df_cleaned, monthly_summary, written>>

\* main.py:230
Aggregate ==
    /\ pc = "group_and_aggregate"
    /\ LET r == group_and_aggregate(df_cleaned)
       IN  /\ monthly_summary' = r.ret
           /\ IF r.exc # "none" THEN Crash("group_and_aggregate", r.exc)
              ELSE /\ pc' = "create_visualizations"
                   /\ entered' = Append(entered, "group_and_aggregate")
                   /\ completed' = Append(completed, "group_and_aggregate")
                   /\ UNCHANGED <<outcome, error>>
    /\ UNCHANGED <<file, df_raw, df_cleaned, overall_stats, written>>

\* main.py:233
Visualize ==
    /\ pc = "create_visualizations"
    /\ LET r == create_visualizations(df_cleaned, monthly_summary)
       IN  /\ written' = written \o r.written
           /\ IF r.exc # "none" THEN Crash("create_visualizations", r.exc)
              ELSE /\ pc' = "export_results"
                   /\ entered' = Append(entered, "create_visualizations")
                   /\ completed' = Append(completed, "create_visualizations")
                   /\ UNCHANGED <<outcome, error>>
    /\ UNCHANGED <<file, df_raw, df_cleaned, overall_stats, monthly_summary>>

\* main.py:235-239
Export ==
    /\ pc = "export_results"
    /\ LET r == export_results(df_cleaned, overall_stats, monthly_summary)
       IN  /\ written' = written \o r.written
           /\ IF r.exc # "none" THEN Crash("export_results", r.exc)
              ELSE /\ pc' = "done"
                   /\ outcome' = "completed"
                   /\ entered' = Append(entered, "export_results")
                   /\ completed' = Append(completed, "export_results")
                   /\ error' = error
    /\ UNCHANGED <<file, df_raw, df_cleaned, overall_stats, monthly_summary>>

Next == Load \/ Clean \/ Stats \/ Aggregate \/ Visualize \/ Export

Spec == Init /\ [][Next]_vars

(***************************************************************************)
(* create_visualizations called on its own, on a cleaned table holding any *)
(* of the relevant columns and the monthly summary of the full table.      *)
(***************************************************************************)
ColumnChoices ==
    {SelectSeq(RELEVANT_COLUMNS, LAMBDA c : c \in S) : S \in SUBSET Range(RELEVANT_COLUMNS)}

InitVis ==
    /\ file \in Files
    /\ file.kind = "DataFrame"
    /\ LET full == clean_data(file).ret
       IN  /\ ~IsNone(full)
           /\ group_and_aggregate(full).exc = "none"
           /\ df_raw = clean_data(file).df
           /\ df_cleaned \in {Select(full, cols) : cols \in ColumnChoices}
           /\ monthly_summary = group_and_aggregate(full).ret
    /\ overall_stats = None
    /\ pc = "call_create_visualizations"
    /\ outcome = "running"
    /\ error = "none"
    /\ written = <<>>
    /\ entered = <<>>
    /\ completed = <<>>

InvokeVisualizer ==
    /\ pc = "call_create_visualizations"
    /\ LET r == create_visualizations(df_cleaned, monthly_summary)
       IN  /\ written' = written \o r.written
           /\ IF r.exc # "none" THEN Crash("create_visualizations", r.exc)
              ELSE /\ pc' = "done"
                   /\ outcome' = "completed"
                   /\ error' = error
                   /\ entered' = Append(entered, "create_visualizations")
                   /\ completed' = Append(completed, "create_visualizations")
    /\ UNCHANGED <<file, df_raw, df_cleaned, overall_stats, monthly_summary>>

NextVis == InvokeVisualizer

SpecVis == InitVis /\ [][NextVis]_vars

(***************************************************************************)
(* Properties                                                              *)
(***************************************************************************)
Entered(stage) == stage \in Range(entered)
Completed(stage) == stage \in Range(completed)

IsPrefix(s, t) == Len(s) <= Len(t) /\ \A i \in 1..Len(s) : s[i] = t[i]

IsCsv == file.kind = "DataFrame"
DateColumnAbsent == IsCsv /\ ~HasColumn(file, DATE_COLUMN)
DateColumnPresent == IsCsv /\ HasColumn(file, DATE_COLUMN)
SomeDateUnparseable ==
    DateColumnPresent /\ \E i \in 1..Len(file.rows) : ~Parseable(file.rows[i][DATE_COLUMN])
AllDatesParseable ==
    DateColumnPresent /\ \A i \in 1..Len(file.rows) : Parseable(file.rows[i][DATE_COLUMN])
AllValueColumns == IsCsv /\ \A c \in Range(RELEVANT_COLUMNS) : HasColumn(file, c)
SomeValueColumnAbsent == IsCsv /\ \E c \in Range(RELEVANT_COLUMNS) : ~HasColumn(file, c)

\* C1: when the file has no column named DATE_COLUMN, clean_data returns
\* None, main returns normally (no crash), no artifact is written and no
\* stage after clean_data is entered.
C1_MissingDateColumnHalts ==
    DateColumnAbsent =>
        /\ written = <<>>
        /\ IsPrefix(entered, <<"load_data", "clean_data">>)
        /\ outcome # "crashed"
        /\ Entered("clean_data") =>
              /\ IsNone(df_cleaned)
              /\ pc = "done"
              /\ outcome = "aborted_clean"
              /\ error = "none"

C1_Witness ==
    DateColumnAbsent /\ Entered("clean_data") /\ outcome = "aborted_clean"

\* C2 as stated: with the date column present and a value in it that cannot
\* be parsed, the run ends in an uncaught error rather than in clean_data
\* returning None and main's early return.
C2_UnparseableDateCrashes ==
    (SomeDateUnparseable /\ Entered("clean_data")) =>
        /\ outcome = "crashed"
        /\ outcome # "aborted_clean"

\* C2 amended: with the date column present and a value in it that cannot be
\* parsed, clean_data catches the error and returns None, and main takes the
\* same early return as for a missing date column: no crash, no later stage,
\* no artifact.
C2_UnparseableDateHaltsCleanly ==
    SomeDateUnparseable =>
        /\ written = <<>>
        /\ IsPrefix(entered, <<"load_data", "clean_data">>)
        /\ outcome # "crashed"
        /\ Entered("clean_data") =>
              /\ IsNone(df_cleaned)
              /\ pc = "done"
              /\ outcome = "aborted_clean"
              /\ error = "none"

C2_Witness ==
    SomeDateUnparseable /\ Entered("clean_data") /\ outcome = "aborted_clean"

\* C3: when there is no file at the input path, load_data returns None
\* without raising, main returns without entering clean_data or any later
\* stage, and no artifact is written.
C3_MissingFileHalts ==
    file.kind = "NoFile" =>
        /\ written = <<>>
        /\ IsPrefix(entered, <<"load_data">>)
        /\ IsNone(df_raw)
        /\ outcome # "crashed"
        /\ error = "none"
        /\ Entered("load_data") => (pc = "done" /\ outcome = "aborted_load")

C3_Witness ==
    file.kind = "NoFile" /\ Entered("load_data") /\ outcome = "aborted_load"

MonthlyRainfall == [k \in 1..Len(monthly_summary.rows) |-> monthly_summary.rows[k].Rainfall.sum.num]

\* C5: the monthly Rainfall sums, added over all months of the Monthly
\* Summary, equal the sum of the Rainfall column of the Cleaned Table.
C5_RainfallConserved ==
    Completed("group_and_aggregate") =>
        SumSeq(MonthlyRainfall) = SumSeq(Column(df_cleaned, "Rainfall"))

NoMissingDate == \A i \in 1..Len(df_cleaned.index) : df_cleaned.index[i] # NaT

\* Supporting C5: when every index value is a valid timestamp the totals
\* agree, whatever the order of the rows.
C5_RainfallConservedWithValidDates ==
    (Completed("group_and_aggregate") /\ NoMissingDate) =>
        SumSeq(MonthlyRainfall) = SumSeq(Column(df_cleaned, "Rainfall"))

ConstantColumn(c, v) ==
    \A i \in 1..Len(df_cleaned.rows) : df_cleaned.rows[i][c] = v

ReadingValues == {r[c] : r \in Readings, c \in Range(RELEVANT_COLUMNS)}

C7_VisualizerFailsWithoutHumidity ==
    (pc = "done" /\ ~HasColumn(df_cleaned, "Humidity")) =>
        /\ outcome = "crashed"
        /\ error = "KeyError"
        /\ ~Completed("create_visualizations")
        /\ SCATTER_PNG \notin Range(written)
        /\ COMBINED_PNG \notin Range(written)

C7_Witness ==
    /\ pc = "done"
    /\ HasColumn(df_cleaned, "Temperature")
    /\ ~HasColumn(df_cleaned, "Humidity")
    /\ Entered("create_visualizations")
    /\ error = "KeyError"

\* C8: the stages are entered in the order of Stages, each at most once and
\* only after every earlier one returned its result; the artifacts are
\* written in the order of Artifacts, each at most once; a run that reaches
\* the end has entered every stage and written all six artifacts once.
C8_LinearChain ==
    /\ IsPrefix(entered, Stages)
    /\ IsPrefix(completed, entered)
    /\ Len(entered) <= Len(completed) + 1
    /\ IsPrefix(written, Artifacts)
    /\ outcome = "completed" =>
          /\ entered = Stages
          /\ completed = Stages
          /\ written = Artifacts
    /\ pc # "done" => (outcome = "running" /\ entered = completed)
    /\ Entered("export_results") \/ Len(written) <= 4
    /\ Entered("create_visualizations") \/ written = <<>>

C8_Witness == outcome = "completed" /\ pc = "done" /\ Len(written) = 6

MonthNumber(t) == LET c == CivilFromDays(t) IN 12 * c.y + c.m

ValidTimestamps == {df_cleaned.index[i] : i \in 1..Len(df_cleaned.index)} \ {NaT}

FirstMonth == MonthNumber(MinOf(ValidTimestamps))
LastMonth == MonthNumber(MaxOf(ValidTimestamps))

\* One row for every calendar month from the earliest timestamp's to the
\* latest's, in order.
OneRowPerMonth ==
    /\ Len(monthly_summary.rows) = LastMonth - FirstMonth + 1
    /\ \A k \in 1..Len(monthly_summary.rows) :
          MonthNumber(monthly_summary.rows[k].label) = FirstMonth + k - 1

EmptyMonth(k) ==
    \A t \in ValidTimestamps : MonthNumber(t) # FirstMonth + k - 1

\* C9 as stated: one row per calendar month of the span, and every value of
\* an empty month's row is missing.
C9_EmptyMonthAllMissing ==
    Completed("group_and_aggregate") =>
        /\ OneRowPerMonth
        /\ \A k \in 1..Len(monthly_summary.rows) :
              EmptyMonth(k) =>
                  /\ monthly_summary.rows[k].Temperature.mean.nan
                  /\ monthly_summary.rows[k].Temperature.min.nan
                  /\ monthly_summary.rows[k].Temperature.max.nan
                  /\ monthly_summary.rows[k].Rainfall.sum.nan
                  /\ monthly_summary.rows[k].Humidity.mean.nan

\* C9 amended: one row per calendar month of the span; in an empty month's
\* row the Temperature mean, min and max and the Humidity mean are missing
\* and the Rainfall sum is 0.
C9_EmptyMonthRainfallZero ==
    Completed("group_and_aggregate") =>
        /\ OneRowPerMonth
        /\ \A k \in 1..Len(monthly_summary.rows) :
              EmptyMonth(k) =>
                  /\ monthly_summary.rows[k].Temperature.mean.nan
                  /\ monthly_summary.rows[k].Temperature.min.nan
                  /\ monthly_summary.rows[k].Temperature.max.nan
                  /\ IsZero(monthly_summary.rows[k].Rainfall.sum)
                  /\ monthly_summary.rows[k].Humidity.mean.nan

\* December and February rows with an empty January between them.
C9_Witness ==
    /\ Completed("group_and_aggregate")
    /\ Len(monthly_summary.rows) = 3
    /\ EmptyMonth(2)
    /\ ~EmptyMonth(1) /\ ~EmptyMonth(3)

\* C10: with the date column present and parseable but a value column absent,
\* clean_data returns the table of the present value columns, in configured
\* order, with every row; the run then ends in an uncaught KeyError inside
\* compute_statistics, before any later stage, having written no artifact.
C10_MissingValueColumnCrashesInStatistics ==
    (AllDatesParseable /\ SomeValueColumnAbsent) =>
        /\ written = <<>>
        /\ IsPrefix(entered, <<"load_data", "clean_data", "compute_statistics">>)
        /\ Entered("clean_data") =>
              /\ Completed("clean_data")
              /\ df_cleaned.kind = "DataFrame"
              /\ df_cleaned.columns =
                    SelectSeq(<<"Temperature", "Rainfall", "Humidity">>,
                              LAMBDA c : HasColumn(file, c))
              /\ Len(df_cleaned.rows) = Len(file.rows)
              /\ \A i \in 1..Len(file.rows) : \A c \in Range(df_cleaned.columns) :
                    df_cleaned.rows[i][c] = file.rows[i][c]
        /\ pc = "done" =>
              /\ outcome = "crashed"
              /\ error = "KeyError"
              /\ entered = <<"load_data", "clean_data", "compute_statistics">>
              /\ completed = <<"load_data", "clean_data">>

\* Humidity absent, Temperature and Rainfall kept in configured order.
C10_Witness ==
    /\ AllDatesParseable
    /\ ~HasColumn(file, "Humidity")
    /\ pc = "done"
    /\ outcome = "crashed"
    /\ df_cleaned.columns = <<"Temperature", "Rainfall">>
    /\ Entered("compute_statistics")

====
